---- MODULE Spec2Model ----
(***************************************************************************)
(* Model of the stream supervisor of                                       *)
(* src/Solana/lets-bonk-fun-example/index.js (second program of the file,  *)
(* lines 538-1036): global state, stopStream / attemptReconnect /          *)
(* startStream / reloadAndRestart, the stream event handlers, the signal   *)
(* handlers, the config watcher and the initial startup.                   *)
(*                                                                         *)
(* JavaScript runs every handler to completion, so every handler is one    *)
(* action.  A handler is written as an operator from the record of the     *)
(* globals to the record of the globals after the handler.                 *)
(***************************************************************************)
EXTENDS Integers, Sequences, FiniteSets, TLC

\* ------------------------------------------------------------------ bounds
MaxStreams == 2     \* streams opened in one behaviour
MaxAttempts == 7    \* cap on reconnectAttempts
MaxTrades == 1      \* cap on tradeCount
MaxN == 12          \* attempt counts explored for getReconnectDelay
MaxMsgs == 2        \* cap on messageCount of the filtering client
MaxLog == 2         \* cap on the bufferedLog calls of one behaviour
MaxTime == 1000     \* last instant (ms) of the debounce clock
MaxBurst == 4       \* "change" events of one burst
MaxCacheCalls == 3  \* toBase58 calls explored on a nearly full cache

\* --------------------------------------------------------------- constants
MAX_RECONNECT_DELAY == 30000
INITIAL_RECONNECT_DELAY == 1000
WATCH_DEBOUNCE_MS == 300
MAX_LOG_BUFFER_SIZE == 1000
MAX_CACHE_SIZE == 10000

VARIABLES
  pc,                      \* "startup" | "running" | "exited" | "crashed"
  exitCode,                \* -1 while the process lives
  config,                  \* let config
  client,                  \* let client / metadata: the server they were built for
  currentStream,           \* let currentStream: index into streams, 0 = null
  isReloading,             \* let isReloading
  tradeCount,              \* let tradeCount
  tradesInLastInterval,    \* let tradesInLastInterval
  performanceTimer,        \* let performanceTimer: TRUE = interval handle set
  reconnectAttempts,       \* let reconnectAttempts
  reconnectTimer,          \* let reconnectTimer: "null" | "armed" | "fired"
  orphanTimers,            \* armed reconnect timeouts no variable refers to
  isIntentionalDisconnect, \* let isIntentionalDisconnect
  watchTimeout,            \* let watchTimeout: TRUE = debounce timeout armed
  streams,                 \* every stream client.DexTrades returned, in order
  delays,                  \* history: the delays passed to setTimeout by attemptReconnect
                           \* since startStream last returned normally
  stopped,                 \* history: stopStream(true) has run while a reconnect timeout was armed
  lastOp                   \* history: the handler that ran last and its outcome

\* The filtering client (first program of the file, lines 1-537).  Names that
\* the two programs share carry the prefix flt_.
VARIABLES
  flt_pc,                  \* "off" | "load" | "running" | "exited"
  flt_exitCode,            \* -1 while the process lives
  flt_config,              \* const config
  tradeFilter,             \* const tradeFilter
  flt_stream,              \* the stream listenToStream opened
  statsInterval,           \* let statsInterval: TRUE = interval handle set
  logFlushInterval,        \* let logFlushInterval: TRUE = interval handle set
  logBuffer,               \* let logBuffer
  printed,                 \* messages written by console.log from the log buffer
  logCalls,                \* history: number of bufferedLog calls, names the messages
  flushTimers,             \* history: number of setInterval calls of bufferedLog
  messageCount,            \* let messageCount
  flt_tradeCount,          \* let tradeCount
  filteredOutCount,        \* let filteredOutCount
  flt_lastTrade            \* history: the Trade of the last data event

\* The clock of the config watcher, used where the 300 ms debounce matters.
VARIABLES
  now,                     \* current time in ms
  watchDeadline,           \* expiry of the timeout watchTimeout refers to, -1 = none
  watchOrphans,            \* expiries of armed debounce timeouts nothing refers to
  lastChange,              \* history: time of the last "change" event, -1 = none
  burstCalls,              \* history: reloadAndRestart calls since the burst began
  burstEvents              \* history: "change" events of the current burst

\* The base58 cache of the filtering client, used where its contents matter.
VARIABLES
  base58Cache,             \* const base58Cache: entries in insertion order
  cacheBytes,              \* history: argument of the last toBase58 call
  cacheResult,             \* history: value returned by the last toBase58 call
  cacheCalls               \* history: number of toBase58 calls

fltVars == <<flt_pc, flt_exitCode, flt_config, tradeFilter, flt_stream,
             statsInterval, logFlushInterval, logBuffer, printed, logCalls,
             flushTimers, messageCount, flt_tradeCount, filteredOutCount, flt_lastTrade>>

cacheVars == <<base58Cache, cacheBytes, cacheResult, cacheCalls>>

clockVars == <<now, watchDeadline, watchOrphans, lastChange, burstCalls,
              burstEvents>>

supVars == <<pc, exitCode, config, client, currentStream, isReloading,
             tradeCount, tradesInLastInterval, performanceTimer,
             reconnectAttempts, reconnectTimer, orphanTimers,
             isIntentionalDisconnect, watchTimeout, streams, delays, stopped>>

vars == <<pc, exitCode, config, client, currentStream, isReloading, tradeCount,
          tradesInLastInterval, performanceTimer, reconnectAttempts,
          reconnectTimer, orphanTimers, isIntentionalDisconnect,
          watchTimeout, streams, delays, stopped, lastOp, fltVars, clockVars,
          cacheVars>>

\* ------------------------------------------------------------ configuration
\* A server section stands for (address, authorization, insecure); "srvBad"
\* is a section whose address the gRPC client constructor rejects, "missing"
\* a document without the section.

List(p, a) == [present |-> p, addresses |-> a]

FilterLists(f) ==
  IF f = "fltA"
  THEN [programs |-> List(TRUE, <<"prog1">>), pool |-> List(TRUE, <<>>),
        tokens |-> List(TRUE, <<"tok1">>), traders |-> List(FALSE, <<>>),
        signers |-> List(TRUE, <<"sig1", "sig2">>)]
  ELSE IF f = "fltC"
  THEN [programs |-> List(FALSE, <<>>), pool |-> List(FALSE, <<>>),
        tokens |-> List(TRUE, <<"tok1", "tok2">>), traders |-> List(FALSE, <<>>),
        signers |-> List(FALSE, <<>>)]
  ELSE IF f = "fltD"
  THEN [programs |-> List(TRUE, <<>>), pool |-> List(FALSE, <<>>),
        tokens |-> List(TRUE, <<>>), traders |-> List(TRUE, <<>>),
        signers |-> List(FALSE, <<>>)]
  ELSE [programs |-> List(TRUE, <<"prog2">>), pool |-> List(TRUE, <<"pool1">>),
        tokens |-> List(FALSE, <<>>), traders |-> List(TRUE, <<"trd1">>),
        signers |-> List(TRUE, <<>>)]

NullConfig == [server |-> "null", filters |-> "null"]
Config(s, f) == [server |-> s, filters |-> f]
\* the documents config.yaml holds at the reads of one behaviour
Configs == {Config("srvA", "fltA"), Config("srvB", "fltB"),
            Config("srvBad", "fltA"), Config("missing", "fltA"),
            Config("srvA", "missing")}

\* loadConfig: the parsed document, or null when reading or parsing throws
\* or the document is empty.
loadConfig(file) == file

\* ------------------------------------------------------------------- state
Globals ==
  [config |-> config, client |-> client, currentStream |-> currentStream,
   isReloading |-> isReloading, tradeCount |-> tradeCount,
   tradesInLastInterval |-> tradesInLastInterval,
   performanceTimer |-> performanceTimer,
   reconnectAttempts |-> reconnectAttempts, reconnectTimer |-> reconnectTimer,
   orphanTimers |-> orphanTimers,
   isIntentionalDisconnect |-> isIntentionalDisconnect,
   streams |-> streams, delays |-> delays]

Commit(g) ==
  /\ config' = g.config
  /\ client' = g.client
  /\ currentStream' = g.currentStream
  /\ isReloading' = g.isReloading
  /\ tradeCount' = g.tradeCount
  /\ tradesInLastInterval' = g.tradesInLastInterval
  /\ performanceTimer' = g.performanceTimer
  /\ reconnectAttempts' = g.reconnectAttempts
  /\ reconnectTimer' = g.reconnectTimer
  /\ orphanTimers' = g.orphanTimers
  /\ isIntentionalDisconnect' = g.isIntentionalDisconnect
  /\ streams' = g.streams
  /\ delays' = g.delays

Min(a, b) == IF a <= b THEN a ELSE b

RECURSIVE Pow2(_)
Pow2(n) == IF n = 0 THEN 1 ELSE 2 * Pow2(n - 1)

\* ------------------------------------------------------- stream collaborator
\* A stream is "open" until the client cancels it ("cancelled") or the server
\* or network terminates it.  A terminated stream emits 'error' (state
\* "errored"; the readable side may still emit 'end') or a clean 'end'
\* ("closed").  Messages already in flight may be delivered by a cancelled
\* stream until its terminal event.
cancel(ss, id) ==
  [ss EXCEPT ![id].state = IF @ = "open" THEN "cancelled" ELSE @]

OpenStreams(ss) == {i \in 1..Len(ss) : ss[i].state = "open"}

\* ----------------------------------------------------------------- helpers
initializeClientThrows(g) ==
  g.config = NullConfig \/ g.config.server \in {"missing", "srvBad"}

initializeClient(g) == [g EXCEPT !.client = g.config.server]

createRequestThrows(c) == c.filters = "missing"

createRequest(c) ==
  LET f == FilterLists(c.filters)
      src == [program |-> f.programs, pool |-> f.pool,
              trader |-> f.traders, signer |-> f.signers]
      keys == {k \in {"program", "pool", "trader", "signer"} :
                 src[k].present /\ Len(src[k].addresses) > 0}
  IN  [k \in keys |-> [addresses |-> src[k].addresses]]

\* stopStream that leaves an armed reconnect timeout alone
stopStream_keepTimer(g, intentional) ==
  LET g1 == [g EXCEPT !.isIntentionalDisconnect = intentional]
      g2 == IF g1.currentStream # 0
            THEN [g1 EXCEPT !.streams = cancel(g1.streams, g1.currentStream),
                            !.currentStream = 0]
            ELSE g1
  IN  [g2 EXCEPT !.performanceTimer = FALSE]

\* stopStream that forgets the stream without cancelling it
stopStream_noCancel(g, intentional) ==
  LET g1 == [g EXCEPT !.isIntentionalDisconnect = intentional,
                      !.currentStream = 0,
                      !.performanceTimer = FALSE]
  IN  [g1 EXCEPT !.reconnectTimer = "null"]

stopStream(g, intentional) ==
  LET g1 == [g EXCEPT !.isIntentionalDisconnect = intentional]
      g2 == IF g1.currentStream # 0
            THEN [g1 EXCEPT !.streams = cancel(g1.streams, g1.currentStream),
                            !.currentStream = 0]
            ELSE g1
      g3 == [g2 EXCEPT !.performanceTimer = FALSE]
  IN  [g3 EXCEPT !.reconnectTimer = "null"]

\* getReconnectDelay without the Math.min ceiling
getReconnectDelay_noCap(n) == INITIAL_RECONNECT_DELAY * Pow2(n)

getReconnectDelay(n) ==
  Min(INITIAL_RECONNECT_DELAY * Pow2(n), MAX_RECONNECT_DELAY)

\* The body up to and including setTimeout; the callback is ReconnectTimerFire.
attemptReconnect(g) ==
  IF g.isIntentionalDisconnect \/ g.isReloading
  THEN g
  ELSE LET n == g.reconnectAttempts + 1
           delay == getReconnectDelay(n)
       IN  [g EXCEPT !.reconnectAttempts = n,
                     !.orphanTimers = IF g.reconnectTimer = "armed"
                                      THEN @ + 1 ELSE @,
                     !.reconnectTimer = "armed",
                     !.delays = Append(@, delay)]

startPerformanceReporting(g, resetCounters) ==
  LET g1 == IF resetCounters
            THEN [g EXCEPT !.tradeCount = 0, !.tradesInLastInterval = 0]
            ELSE g
  IN  [g1 EXCEPT !.performanceTimer = TRUE]

\* startStream throws before it changes anything: on a missing client or
\* config, in createRequest, or in client.DexTrades (rpcThrows).
startStreamThrows(g, rpcThrows) ==
  \/ g.client = "null"
  \/ g.config = NullConfig
  \/ createRequestThrows(g.config)
  \/ rpcThrows

startStream(g) ==
  LET stream == [state |-> "open", request |-> createRequest(g.config)]
      g1 == [g EXCEPT !.streams = Append(@, stream),
                      !.currentStream = Len(g.streams) + 1,
                      !.reconnectAttempts = 0,
                      !.delays = <<>>]
  IN  IF ~g1.performanceTimer
      THEN startPerformanceReporting(g1, TRUE)
      ELSE g1

\* a data handler that also treats a message as proof of a working connection
onData_resetAttempts(g, hasTrade) ==
  LET g1 == [g EXCEPT !.reconnectAttempts = 0]
  IN  IF hasTrade
      THEN [g1 EXCEPT !.tradeCount = @ + 1, !.tradesInLastInterval = @ + 1]
      ELSE g1

\* stream.on("data")
onData(g, hasTrade) ==
  IF hasTrade
  THEN [g EXCEPT !.tradeCount = @ + 1, !.tradesInLastInterval = @ + 1]
  ELSE g

\* stream.on("error") and stream.on("end") have the same body
onTerminated(g) ==
  IF ~g.isReloading /\ ~g.isIntentionalDisconnect
  THEN attemptReconnect(stopStream(g, FALSE))
  ELSE g

\* the setTimeout callback of attemptReconnect
reconnectCallback(g, rpcThrows) ==
  IF startStreamThrows(g, rpcThrows)
  THEN [out |-> "retry", g |-> attemptReconnect(g)]
  ELSE [out |-> "ok", g |-> startStream(g)]

hasServerConfigChangedThrows(oldConfig, newConfig) ==
  oldConfig = NullConfig \/ oldConfig.server = "missing"
    \/ newConfig.server = "missing"

hasServerConfigChanged(oldConfig, newConfig) ==
  oldConfig.server # newConfig.server

\* reloadAndRestart that stops the stream before it loads the configuration
reloadAndRestart_stopFirst(g, file, rpcThrows) ==
  IF g.isReloading
  THEN [out |-> "dropped", g |-> g]
  ELSE
    LET g1 == stopStream([g EXCEPT !.isReloading = TRUE], TRUE)
        newConfig == loadConfig(file)
    IN
    IF newConfig = NullConfig
    THEN [out |-> "loadFailed", g |-> [g1 EXCEPT !.isReloading = FALSE]]
    ELSE IF hasServerConfigChangedThrows(g1.config, newConfig)
    THEN [out |-> "uncaught", g |-> g1]
    ELSE
      LET needsNewClient == hasServerConfigChanged(g1.config, newConfig)
          g3 == [g1 EXCEPT !.config = newConfig]
      IN
      IF needsNewClient /\ initializeClientThrows(g3)
      THEN [out |-> "clientFailed", g |-> [g3 EXCEPT !.isReloading = FALSE]]
      ELSE
        LET g4 == IF needsNewClient THEN initializeClient(g3) ELSE g3
        IN
        IF startStreamThrows(g4, rpcThrows)
        THEN [out |-> "startFailed", g |-> [g4 EXCEPT !.isReloading = FALSE]]
        ELSE [out |-> "ok",
              g |-> [startStream(g4) EXCEPT !.isReloading = FALSE]]

reloadAndRestart(g, file, rpcThrows) ==
  IF g.isReloading
  THEN [out |-> "dropped", g |-> g]
  ELSE
    LET g1 == [g EXCEPT !.isReloading = TRUE]
        newConfig == loadConfig(file)
    IN
    IF newConfig = NullConfig
    THEN [out |-> "loadFailed", g |-> [g1 EXCEPT !.isReloading = FALSE]]
    ELSE IF hasServerConfigChangedThrows(g1.config, newConfig)
    THEN [out |-> "uncaught", g |-> g1]
    ELSE
      LET needsNewClient == hasServerConfigChanged(g1.config, newConfig)
          g2 == stopStream(g1, TRUE)
          g3 == [g2 EXCEPT !.config = newConfig]
      IN
      IF needsNewClient /\ initializeClientThrows(g3)
      THEN [out |-> "clientFailed", g |-> [g3 EXCEPT !.isReloading = FALSE]]
      ELSE
        LET g4 == IF needsNewClient THEN initializeClient(g3) ELSE g3
        IN
        IF startStreamThrows(g4, rpcThrows)
        THEN [out |-> "startFailed", g |-> [g4 EXCEPT !.isReloading = FALSE]]
        ELSE [out |-> "ok",
              g |-> [startStream(g4) EXCEPT !.isReloading = FALSE]]

\* ------------------------------------------------------------------ actions
\* the filtering client is not the program that runs
FltOff ==
  /\ flt_pc = "off"
  /\ flt_exitCode = -1
  /\ flt_config = [trade_filter |-> "null", filters |-> "null",
                   stream |-> "null", server |-> "null"]
  /\ tradeFilter = "null"
  /\ flt_stream = [state |-> "none"]
  /\ statsInterval = FALSE
  /\ logFlushInterval = FALSE
  /\ logBuffer = <<>>
  /\ printed = <<>>
  /\ logCalls = 0
  /\ flushTimers = 0
  /\ messageCount = 0
  /\ flt_tradeCount = 0
  /\ filteredOutCount = 0
  /\ flt_lastTrade = [buy |-> "none", sell |-> "none"]

CacheOff ==
  /\ base58Cache = <<>>
  /\ cacheBytes = 0
  /\ cacheResult = [kind |-> "none", of |-> 0]
  /\ cacheCalls = 0

ClockOff ==
  /\ now = 0
  /\ watchDeadline = -1
  /\ watchOrphans = {}
  /\ lastChange = -1
  /\ burstCalls = 0
  /\ burstEvents = 0

Init ==
  /\ pc = "startup"
  /\ exitCode = -1
  /\ config = NullConfig
  /\ client = "null"
  /\ currentStream = 0
  /\ isReloading = FALSE
  /\ tradeCount = 0
  /\ tradesInLastInterval = 0
  /\ performanceTimer = FALSE
  /\ reconnectAttempts = 0
  /\ reconnectTimer = "null"
  /\ orphanTimers = 0
  /\ isIntentionalDisconnect = FALSE
  /\ watchTimeout = FALSE
  /\ streams = <<>>
  /\ delays = <<>>
  /\ stopped = FALSE
  /\ lastOp = "load"
  /\ FltOff
  /\ ClockOff
  /\ CacheOff

Running == pc = "running"

\* an initial startup that treats its failure like a lost stream and retries
Startup_retry ==
  /\ pc = "startup"
  /\ \E file \in Configs \cup {NullConfig}, rpcThrows \in BOOLEAN :
       LET g1 == [Globals EXCEPT !.config = loadConfig(file)]
           failed == \/ g1.config = NullConfig
                     \/ initializeClientThrows(g1)
                     \/ startStreamThrows(initializeClient(g1), rpcThrows)
           g2 == IF g1.config = NullConfig \/ initializeClientThrows(g1)
                 THEN g1 ELSE initializeClient(g1)
       IN  IF failed
           THEN /\ Commit(attemptReconnect(g2))
                /\ pc' = "running" /\ exitCode' = exitCode
                /\ lastOp' = "startup:exit"
           ELSE /\ Commit(startStream(g2))
                /\ pc' = "running" /\ exitCode' = exitCode
                /\ lastOp' = "startup:ok"
  /\ UNCHANGED <<watchTimeout, stopped>>
  /\ UNCHANGED <<fltVars, clockVars, cacheVars>>

\* Initial startup (lines 1024-1037): loadConfig, initializeClient,
\* startStream; any failure exits with status 1.
Startup ==
  /\ pc = "startup"
  /\ \E file \in Configs \cup {NullConfig}, rpcThrows \in BOOLEAN :
       LET g1 == [Globals EXCEPT !.config = loadConfig(file)]
           failed == \/ g1.config = NullConfig
                     \/ initializeClientThrows(g1)
                     \/ startStreamThrows(initializeClient(g1), rpcThrows)
           g2 == IF g1.config = NullConfig \/ initializeClientThrows(g1)
                 THEN g1 ELSE initializeClient(g1)
       IN  IF failed
           THEN /\ Commit(g2)
                /\ pc' = "exited" /\ exitCode' = 1
                /\ lastOp' = "startup:exit"
           ELSE /\ Commit(startStream(g2))
                /\ pc' = "running" /\ exitCode' = exitCode
                /\ lastOp' = "startup:ok"
  /\ UNCHANGED <<watchTimeout, stopped>>
  /\ UNCHANGED <<fltVars, clockVars, cacheVars>>

Deliverable(s) == s \in 1..Len(streams) /\ streams[s].state \in {"open", "cancelled"}

StreamData ==
  /\ Running
  /\ \E s \in 1..Len(streams), hasTrade \in BOOLEAN :
       /\ Deliverable(s)
       /\ hasTrade => tradeCount < MaxTrades
       /\ Commit(onData(Globals, hasTrade))
       /\ lastOp' = IF s = currentStream THEN "data:current" ELSE "data:stale"
  /\ UNCHANGED <<pc, exitCode, watchTimeout, stopped>>
  /\ UNCHANGED <<fltVars, clockVars, cacheVars>>

StreamError ==
  /\ Running
  /\ reconnectAttempts < MaxAttempts
  /\ \E s \in 1..Len(streams) :
       /\ Deliverable(s)
       /\ LET g0 == [Globals EXCEPT !.streams[s].state = "errored"]
          IN  Commit(onTerminated(g0))
       /\ lastOp' = IF s = currentStream THEN "error:current" ELSE "error:stale"
  /\ UNCHANGED <<pc, exitCode, watchTimeout, stopped>>
  /\ UNCHANGED <<fltVars, clockVars, cacheVars>>

StreamEnd ==
  /\ Running
  /\ reconnectAttempts < MaxAttempts
  /\ \E s \in 1..Len(streams) :
       /\ streams[s].state \in {"open", "errored"}
       /\ LET g0 == [Globals EXCEPT !.streams[s].state = "closed"]
          IN  Commit(onTerminated(g0))
       /\ lastOp' = IF s = currentStream THEN "end:current" ELSE "end:stale"
  /\ UNCHANGED <<pc, exitCode, watchTimeout, stopped>>
  /\ UNCHANGED <<fltVars, clockVars, cacheVars>>

\* An armed reconnect timeout fires: the one reconnectTimer refers to, or one
\* that was overwritten without being cleared.
ReconnectTimerFire ==
  /\ Running
  /\ reconnectAttempts < MaxAttempts
  /\ \E which \in {"ref", "orphan"}, rpcThrows \in BOOLEAN :
       /\ which = "ref" => reconnectTimer = "armed"
       /\ which = "orphan" => orphanTimers > 0
       /\ LET g0 == IF which = "ref"
                    THEN [Globals EXCEPT !.reconnectTimer = "fired"]
                    ELSE [Globals EXCEPT !.orphanTimers = @ - 1]
              r == reconnectCallback(g0, rpcThrows)
          IN  /\ Len(r.g.streams) <= MaxStreams
              /\ Commit(r.g)
              /\ lastOp' = "timer:" \o r.out
  /\ UNCHANGED <<pc, exitCode, watchTimeout, stopped>>
  /\ UNCHANGED <<fltVars, clockVars, cacheVars>>

\* the setInterval callback of startPerformanceReporting
PerformanceTick ==
  /\ Running
  /\ performanceTimer
  /\ Commit([Globals EXCEPT !.tradesInLastInterval = 0])
  /\ lastOp' = "perf"
  /\ UNCHANGED <<pc, exitCode, watchTimeout, stopped>>
  /\ UNCHANGED <<fltVars, clockVars, cacheVars>>

\* fs.watch callback with eventType "change"
FileChange ==
  /\ Running
  /\ watchTimeout' = TRUE
  /\ lastOp' = "change"
  /\ UNCHANGED <<pc, exitCode, config, client, currentStream, isReloading,
                 tradeCount, tradesInLastInterval, performanceTimer,
                 reconnectAttempts, reconnectTimer, orphanTimers,
                 isIntentionalDisconnect, streams, delays, stopped>>
  /\ UNCHANGED <<fltVars, clockVars, cacheVars>>

\* the debounce timeout fires: reloadAndRestart(); watchTimeout = null.
\* An exception escaping reloadAndRestart is uncaught and ends the process.
WatchTimerFire ==
  /\ Running
  /\ watchTimeout
  /\ \E file \in Configs \cup {NullConfig}, rpcThrows \in BOOLEAN :
       LET r == reloadAndRestart(Globals, file, rpcThrows)
       IN  /\ Len(r.g.streams) <= MaxStreams
           /\ Commit(r.g)
           /\ lastOp' = "reload:" \o r.out
           /\ stopped' = (stopped \/ (reconnectTimer = "armed" /\
                            r.out \in {"clientFailed", "startFailed", "ok"}))
           /\ IF r.out = "uncaught"
              THEN pc' = "crashed" /\ exitCode' = 1 /\ watchTimeout' = watchTimeout
              ELSE pc' = pc /\ exitCode' = exitCode /\ watchTimeout' = FALSE
  /\ UNCHANGED <<fltVars, clockVars, cacheVars>>

\* SIGINT / SIGTERM: stopStream(true); process.exit(0)
Signal ==
  /\ Running
  /\ Commit(stopStream(Globals, TRUE))
  /\ pc' = "exited" /\ exitCode' = 0
  /\ lastOp' = "signal"
  /\ stopped' = (stopped \/ reconnectTimer = "armed")
  /\ UNCHANGED watchTimeout
  /\ UNCHANGED <<fltVars, clockVars, cacheVars>>

Next ==
  \/ Startup
  \/ StreamData
  \/ StreamError
  \/ StreamEnd
  \/ ReconnectTimerFire
  \/ PerformanceTick
  \/ FileChange
  \/ WatchTimerFire
  \/ Signal

Spec == Init /\ [][Next]_vars

\* ------------------------------------------- getReconnectDelay on its own
\* The delay function applied to consecutive attempt counts, starting from any
\* count in 0..MaxN; delays collects the results.
InitDelay ==
  /\ pc = "delay"
  /\ exitCode = -1
  /\ config = NullConfig
  /\ client = "null"
  /\ currentStream = 0
  /\ isReloading = FALSE
  /\ tradeCount = 0
  /\ tradesInLastInterval = 0
  /\ performanceTimer = FALSE
  /\ reconnectAttempts \in 0..MaxN
  /\ reconnectTimer = "null"
  /\ orphanTimers = 0
  /\ isIntentionalDisconnect = FALSE
  /\ watchTimeout = FALSE
  /\ streams = <<>>
  /\ delays = <<>>
  /\ stopped = FALSE
  /\ lastOp = "load"
  /\ FltOff
  /\ ClockOff
  /\ CacheOff

DelayStep ==
  /\ pc = "delay"
  /\ reconnectAttempts <= MaxN
  /\ delays' = Append(delays, getReconnectDelay(reconnectAttempts))
  /\ reconnectAttempts' = reconnectAttempts + 1
  /\ lastOp' = "delay"
  /\ UNCHANGED <<pc, exitCode, config, client, currentStream, isReloading,
                 tradeCount, tradesInLastInterval, performanceTimer,
                 reconnectTimer, orphanTimers, isIntentionalDisconnect,
                 watchTimeout, streams, stopped>>
  /\ UNCHANGED <<fltVars, clockVars, cacheVars>>

NextDelay == DelayStep

SpecDelay == InitDelay /\ [][NextDelay]_vars

\* ============================================================ filtering client
\* config.yaml of the filtering client.  trade_filter "absent" is a document
\* without the key, "" an empty string; stream "missing" / filters "missing"
\* are documents without the section.
FltConfigs ==
  [trade_filter : {"absent", "", "alltrades", "buys", "sells", "bogus"},
   filters : {"fltA", "fltB", "fltC", "fltD", "missing"},
   stream : {"dex_trades", "bogus", "missing"},
   server : {"srvA", "srvBad"}]

NullFltConfig ==
  [trade_filter |-> "null", filters |-> "null", stream |-> "null",
   server |-> "null"]

\* values JavaScript's || treats as false
Falsy == {"absent", ""}

\* const tradeFilter = config.trade_filter || "alltrades"
resolveTradeFilter(c) ==
  IF c.trade_filter \in Falsy THEN "alltrades" ELSE c.trade_filter

\* ["alltrades", "buys", "sells"].includes(tradeFilter)
tradeFilterValid(tf) == tf \in {"alltrades", "buys", "sells"}

\* Mint addresses as bytes and their base58 text; "none" is a missing or empty
\* value, "junk" a value bs58.encode rejects.
Mints == {"none", "b1", "b2", "b3"}

bs58encode(bytes) ==
  IF bytes = "b1" THEN "tok1" ELSE IF bytes = "b2" THEN "tok2" ELSE "tok3"

toBase58(bytes) ==
  IF bytes = "none" THEN "undefined"
  ELSE IF bytes = "junk" THEN "invalid_address"
  ELSE bs58encode(bytes)

\* shouldShowTrade with the two sides exchanged
shouldShowTrade_swapped(c, tf, trade) ==
  LET tokens == FilterLists(c.filters).tokens
  IN  IF ~tokens.present \/ Len(tokens.addresses) = 0
      THEN TRUE
      ELSE
        LET buyMint == toBase58(trade.buy)
            sellMint == toBase58(trade.sell)
            tokenOnBuySide ==
              \E i \in 1..Len(tokens.addresses) : tokens.addresses[i] = sellMint
            tokenOnSellSide ==
              \E i \in 1..Len(tokens.addresses) : tokens.addresses[i] = buyMint
        IN  IF tf = "buys" THEN tokenOnBuySide
            ELSE IF tf = "sells" THEN tokenOnSellSide
            ELSE tokenOnBuySide \/ tokenOnSellSide

shouldShowTrade(c, tf, trade) ==
  LET tokens == FilterLists(c.filters).tokens
  IN  IF ~tokens.present \/ Len(tokens.addresses) = 0
      THEN TRUE
      ELSE
        LET buyMint == toBase58(trade.buy)
            sellMint == toBase58(trade.sell)
            tokenOnBuySide ==
              \E i \in 1..Len(tokens.addresses) : tokens.addresses[i] = buyMint
            tokenOnSellSide ==
              \E i \in 1..Len(tokens.addresses) : tokens.addresses[i] = sellMint
        IN  IF tf = "buys" THEN tokenOnBuySide
            ELSE IF tf = "sells" THEN tokenOnSellSide
            ELSE tokenOnBuySide \/ tokenOnSellSide

\* createRequest of the filtering client (lines 210-246)
flt_createRequest(c) ==
  LET f == FilterLists(c.filters)
      src == [program |-> f.programs, pool |-> f.pool, token |-> f.tokens,
              trader |-> f.traders, signer |-> f.signers]
      keys == {k \in {"program", "pool", "token", "trader", "signer"} :
                 src[k].present /\ Len(src[k].addresses) > 0}
  IN  [k \in keys |-> [addresses |-> src[k].addresses]]

\* the switch on config.stream.type: the client method, or "throw"
streamMethod(type) ==
  CASE type = "dex_trades" -> "DexTrades"
    [] type = "dex_orders" -> "DexOrders"
    [] type = "dex_pools" -> "DexPools"
    [] type = "transactions" -> "Transactions"
    [] type = "transfers" -> "Transfers"
    [] type = "balances" -> "Balances"
    [] OTHER -> "throw"

FltGlobals ==
  [config |-> flt_config, tradeFilter |-> tradeFilter, stream |-> flt_stream,
   statsInterval |-> statsInterval, logFlushInterval |-> logFlushInterval,
   logBuffer |-> logBuffer, printed |-> printed, logCalls |-> logCalls,
   flushTimers |-> flushTimers,
   messageCount |-> messageCount, tradeCount |-> flt_tradeCount,
   filteredOutCount |-> filteredOutCount]

FltCommit(f) ==
  /\ flt_config' = f.config
  /\ tradeFilter' = f.tradeFilter
  /\ flt_stream' = f.stream
  /\ statsInterval' = f.statsInterval
  /\ logFlushInterval' = f.logFlushInterval
  /\ logBuffer' = f.logBuffer
  /\ printed' = f.printed
  /\ logCalls' = f.logCalls
  /\ flushTimers' = f.flushTimers
  /\ messageCount' = f.messageCount
  /\ flt_tradeCount' = f.tradeCount
  /\ filteredOutCount' = f.filteredOutCount

\* flushLogs that prints the buffer and keeps it
flushLogs_keepBuffer(f) ==
  IF Len(f.logBuffer) > 0
  THEN [f EXCEPT !.printed = @ \o f.logBuffer]
  ELSE f

flushLogs(f) ==
  IF Len(f.logBuffer) > 0
  THEN [f EXCEPT !.printed = @ \o f.logBuffer, !.logBuffer = <<>>]
  ELSE f

\* the message is named by the number of the call
bufferedLog(f) ==
  LET f1 == [f EXCEPT !.logCalls = @ + 1,
                      !.logBuffer = Append(@, f.logCalls + 1)]
      f2 == IF Len(f1.logBuffer) >= MAX_LOG_BUFFER_SIZE THEN flushLogs(f1) ELSE f1
  IN  IF f2.logFlushInterval
      THEN f2
      ELSE [f2 EXCEPT !.logFlushInterval = TRUE, !.flushTimers = @ + 1]

\* printStats that resets only messageCount
printStats_partialReset(f) ==
  [bufferedLog(f) EXCEPT !.messageCount = 0]

printStats(f) ==
  [bufferedLog(f) EXCEPT !.messageCount = 0, !.tradeCount = 0,
                         !.filteredOutCount = 0]

\* stream.on("data") of listenToStream; other = the message carries an Order,
\* PoolEvent, Transfer, BalanceUpdate or Transaction.
flt_onData(f, msg) ==
  LET f1 == [f EXCEPT !.messageCount = @ + 1]
      trade == [buy |-> msg.buy, sell |-> msg.sell]
  IN  IF msg.hasTrade /\ ~shouldShowTrade(f1.config, f1.tradeFilter, trade)
      THEN [f1 EXCEPT !.filteredOutCount = @ + 1]
      ELSE
        LET f2 == IF msg.hasTrade
                  THEN bufferedLog([f1 EXCEPT !.tradeCount = @ + 1])
                  ELSE f1
        IN  IF msg.other THEN bufferedLog(f2) ELSE f2

\* Module load of the filtering client: lines 33-44 (config, tradeFilter),
\* 183-208 (client, metadata) and 531-537 (listenToStream in try/catch).
\* "uncaught" is an exception outside the try, which ends the process with
\* status 1; "exit" is process.exit(1).
fltStartup(f, file, rpcThrows) ==
  IF file = NullFltConfig
  THEN [out |-> "uncaught", f |-> f]
  ELSE
    LET f1 == [f EXCEPT !.config = file,
                        !.tradeFilter = resolveTradeFilter(file)]
    IN
    IF ~tradeFilterValid(f1.tradeFilter)
    THEN [out |-> "exit:trade_filter", f |-> f1]
    ELSE IF file.server = "srvBad"
    THEN [out |-> "uncaught", f |-> f1]
    ELSE IF file.stream = "missing" \/ file.filters = "missing"
    THEN [out |-> "exit", f |-> f1]
    ELSE
      LET f2 == [f1 EXCEPT !.statsInterval = TRUE]
          method == streamMethod(file.stream)
      IN  IF method = "throw" \/ rpcThrows
          THEN [out |-> "exit", f |-> f2]
          ELSE [out |-> "ok",
                f |-> [f2 EXCEPT !.stream =
                         [state |-> "open", status |-> FALSE,
                          method |-> method,
                          request |-> flt_createRequest(file)]]]

\* SIGINT / SIGTERM of the filtering client, up to process.exit(0)
flt_onSignal(f) ==
  [flushLogs(f) EXCEPT !.logFlushInterval = FALSE, !.statsInterval = FALSE]

InitFilter ==
  /\ pc = "off"
  /\ exitCode = -1
  /\ config = NullConfig
  /\ client = "null"
  /\ currentStream = 0
  /\ isReloading = FALSE
  /\ tradeCount = 0
  /\ tradesInLastInterval = 0
  /\ performanceTimer = FALSE
  /\ reconnectAttempts = 0
  /\ reconnectTimer = "null"
  /\ orphanTimers = 0
  /\ isIntentionalDisconnect = FALSE
  /\ watchTimeout = FALSE
  /\ streams = <<>>
  /\ delays = <<>>
  /\ stopped = FALSE
  /\ lastOp = "load"
  /\ flt_pc = "load"
  /\ flt_exitCode = -1
  /\ flt_config = NullFltConfig
  /\ tradeFilter = "null"
  /\ flt_stream = [state |-> "none"]
  /\ statsInterval = FALSE
  /\ logFlushInterval = FALSE
  /\ logBuffer = <<>>
  /\ printed = <<>>
  /\ logCalls = 0
  /\ flushTimers = 0
  /\ messageCount = 0
  /\ flt_tradeCount = 0
  /\ filteredOutCount = 0
  /\ flt_lastTrade = [buy |-> "none", sell |-> "none"]
  /\ ClockOff
  /\ CacheOff

FltRunning == flt_pc = "running"

\* bufferedLog calls explored: MaxLog from an empty history, and MaxLog beyond
\* MAX_LOG_BUFFER_SIZE from a history that starts near the size limit
LogCap ==
  IF logCalls >= MAX_LOG_BUFFER_SIZE - MaxLog - 1
  THEN MAX_LOG_BUFFER_SIZE + MaxLog
  ELSE MaxLog

FltStartup ==
  /\ flt_pc = "load"
  /\ \E file \in FltConfigs \cup {NullFltConfig}, rpcThrows \in BOOLEAN :
       LET r == fltStartup(FltGlobals, file, rpcThrows)
       IN  /\ FltCommit(r.f)
           /\ lastOp' = "fstart:" \o r.out
           /\ IF r.out = "ok"
              THEN flt_pc' = "running" /\ flt_exitCode' = flt_exitCode
              ELSE flt_pc' = "exited" /\ flt_exitCode' = 1
  /\ UNCHANGED <<supVars, flt_lastTrade, clockVars, cacheVars>>

FltData ==
  /\ FltRunning
  /\ flt_stream.state = "open"
  /\ messageCount < MaxMsgs
  /\ \E hasTrade \in BOOLEAN, buy \in Mints, sell \in Mints, other \in BOOLEAN :
       LET msg == [hasTrade |-> hasTrade, buy |-> buy, sell |-> sell,
                   other |-> other]
           f == flt_onData(FltGlobals, msg)
       IN  /\ ~hasTrade => (buy = "none" /\ sell = "none")
           /\ f.logCalls <= LogCap
           /\ FltCommit(f)
           /\ flt_lastTrade' = [buy |-> buy, sell |-> sell]
           /\ lastOp' = IF ~hasTrade THEN "fdata:other"
                        ELSE IF f.filteredOutCount > filteredOutCount
                        THEN "fdata:filtered" ELSE "fdata:shown"
  /\ UNCHANGED <<supVars, flt_pc, flt_exitCode, clockVars, cacheVars>>

FltError ==
  /\ FltRunning
  /\ flt_stream.state = "open"
  /\ FltCommit(flushLogs([FltGlobals EXCEPT !.stream.state = "errored"]))
  /\ lastOp' = "ferror"
  /\ UNCHANGED <<supVars, flt_pc, flt_exitCode, flt_lastTrade, clockVars, cacheVars>>

FltEnd ==
  /\ FltRunning
  /\ flt_stream.state \in {"open", "errored"}
  /\ FltCommit(flushLogs([FltGlobals EXCEPT !.stream.state = "closed"]))
  /\ lastOp' = "fend"
  /\ UNCHANGED <<supVars, flt_pc, flt_exitCode, flt_lastTrade, clockVars, cacheVars>>

\* stream.on("status"): emitted once, when the call finishes
FltStatus ==
  /\ FltRunning
  /\ flt_stream.state \in {"errored", "closed"}
  /\ ~flt_stream.status
  /\ logCalls < LogCap
  /\ FltCommit(bufferedLog([FltGlobals EXCEPT !.stream.status = TRUE]))
  /\ lastOp' = "fstatus"
  /\ UNCHANGED <<supVars, flt_pc, flt_exitCode, flt_lastTrade, clockVars, cacheVars>>

\* the setInterval callback of bufferedLog
FltFlushTick ==
  /\ FltRunning
  /\ logFlushInterval
  /\ FltCommit(flushLogs(FltGlobals))
  /\ lastOp' = "fflush"
  /\ UNCHANGED <<supVars, flt_pc, flt_exitCode, flt_lastTrade, clockVars, cacheVars>>

\* setInterval(printStats, STATS_INTERVAL_MS)
FltStatsTick ==
  /\ FltRunning
  /\ statsInterval
  /\ logCalls < LogCap
  /\ FltCommit(printStats(FltGlobals))
  /\ lastOp' = "fstats"
  /\ UNCHANGED <<supVars, flt_pc, flt_exitCode, flt_lastTrade, clockVars, cacheVars>>

FltSignal ==
  /\ FltRunning
  /\ FltCommit(flt_onSignal(FltGlobals))
  /\ flt_pc' = "exited" /\ flt_exitCode' = 0
  /\ lastOp' = "fsignal"
  /\ UNCHANGED <<supVars, flt_lastTrade, clockVars, cacheVars>>

NextFilter ==
  \/ FltStartup
  \/ FltData
  \/ FltError
  \/ FltEnd
  \/ FltStatus
  \/ FltFlushTick
  \/ FltStatsTick
  \/ FltSignal

SpecFilter == InitFilter /\ [][NextFilter]_vars

\* either program of the file is the one that runs
InitFile == Init \/ InitFilter

NextFile == Next \/ NextFilter

SpecFile == InitFile /\ [][NextFile]_vars

\* ------------------------------------------------ config watcher with a clock

\* the armed debounce timeouts: the one watchTimeout refers to and the orphans
PendingTimers(w) ==
  (IF w.watchDeadline = -1 THEN {} ELSE {w.watchDeadline}) \cup w.watchOrphans

\* the callback without clearTimeout: the previous timeout stays armed
onWatchEvent_noClear(w, eventType, t) ==
  IF eventType = "change"
  THEN [watchDeadline |-> t + WATCH_DEBOUNCE_MS,
        watchOrphans  |-> PendingTimers(w)]
  ELSE w

\* fs.watch("./config.yaml", (eventType, filename) => ...) called at time t:
\* on "change" the previous timeout, if any, is cleared and a new one is set
\* to expire WATCH_DEBOUNCE_MS later; other event types do nothing.
onWatchEvent(w, eventType, t) ==
  IF eventType = "change"
  THEN [watchDeadline |-> t + WATCH_DEBOUNCE_MS,
        watchOrphans  |-> w.watchOrphans]
  ELSE w

Watch == [watchDeadline |-> watchDeadline, watchOrphans |-> watchOrphans]

\* A timeout that is due runs before a file event of the same instant (the
\* timers phase of the event loop precedes the poll phase).
TimedFileChange ==
  /\ Running
  /\ now \notin PendingTimers(Watch)
  /\ \E eventType \in {"change", "rename"} :
       LET w == onWatchEvent(Watch, eventType, now)
           newBurst == lastChange = -1 \/ now - lastChange >= WATCH_DEBOUNCE_MS
       IN  /\ (eventType = "change" /\ ~newBurst) => burstEvents < MaxBurst
           /\ watchDeadline' = w.watchDeadline
           /\ watchOrphans' = w.watchOrphans
           /\ watchTimeout' = (w.watchDeadline # -1)
           /\ lastOp' = eventType
           /\ IF eventType = "change"
              THEN /\ lastChange' = now
                   /\ burstCalls' = IF newBurst THEN 0 ELSE burstCalls
                   /\ burstEvents' = IF newBurst THEN 1 ELSE burstEvents + 1
              ELSE UNCHANGED <<lastChange, burstCalls, burstEvents>>
  /\ UNCHANGED <<pc, exitCode, config, client, currentStream, isReloading,
                 tradeCount, tradesInLastInterval, performanceTimer,
                 reconnectAttempts, reconnectTimer, orphanTimers,
                 isIntentionalDisconnect, streams, delays, stopped, now>>
  /\ UNCHANGED <<fltVars, cacheVars>>

\* time passes, never beyond the expiry of an armed timeout
TimePasses ==
  /\ Running
  /\ \E dt \in {100, 200, 300} :
       /\ now + dt <= MaxTime
       /\ \A d \in PendingTimers(Watch) : now + dt <= d
       /\ now' = now + dt
  /\ lastOp' = "time"
  /\ UNCHANGED <<supVars, fltVars, cacheVars, watchDeadline, watchOrphans,
                 lastChange, burstCalls, burstEvents>>

\* a debounce timeout expires: reloadAndRestart(); watchTimeout = null
TimedWatchFire ==
  /\ Running
  /\ now \in PendingTimers(Watch)
  /\ \E file \in Configs \cup {NullConfig}, rpcThrows \in BOOLEAN :
       LET r == reloadAndRestart(Globals, file, rpcThrows)
       IN  /\ Len(r.g.streams) <= MaxStreams
           /\ Commit(r.g)
           /\ lastOp' = "reload:" \o r.out
           /\ stopped' = (stopped \/ (reconnectTimer = "armed" /\
                            r.out \in {"clientFailed", "startFailed", "ok"}))
           /\ IF r.out = "uncaught"
              THEN pc' = "crashed" /\ exitCode' = 1 /\ watchTimeout' = watchTimeout
              ELSE pc' = pc /\ exitCode' = exitCode /\ watchTimeout' = FALSE
           /\ IF r.out = "uncaught"
              THEN /\ watchDeadline' = IF now = watchDeadline THEN -1
                                       ELSE watchDeadline
                   /\ watchOrphans' = watchOrphans \ {now}
              ELSE /\ watchDeadline' = -1
                   /\ watchOrphans' = PendingTimers(Watch) \ {now}
  /\ burstCalls' = burstCalls + 1
  /\ UNCHANGED <<now, lastChange, burstEvents>>
  /\ UNCHANGED <<fltVars, cacheVars>>

NextWatch ==
  \/ Startup
  \/ TimedFileChange
  \/ TimePasses
  \/ TimedWatchFire

SpecWatch == Init /\ [][NextWatch]_vars

\* ------------------------------------------- log buffer near its size limit

LogStartFile ==
  [trade_filter |-> "buys", filters |-> "fltC", stream |-> "dex_trades",
   server |-> "srvA"]

\* The running filtering client with n0 messages buffered since the last
\* flush (n0 bufferedLog calls within one flush interval, counters just reset
\* by printStats).
InitLog ==
  /\ pc = "off"
  /\ exitCode = -1
  /\ config = NullConfig
  /\ client = "null"
  /\ currentStream = 0
  /\ isReloading = FALSE
  /\ tradeCount = 0
  /\ tradesInLastInterval = 0
  /\ performanceTimer = FALSE
  /\ reconnectAttempts = 0
  /\ reconnectTimer = "null"
  /\ orphanTimers = 0
  /\ isIntentionalDisconnect = FALSE
  /\ watchTimeout = FALSE
  /\ streams = <<>>
  /\ delays = <<>>
  /\ stopped = FALSE
  /\ lastOp = "fstats"
  /\ flt_pc = "running"
  /\ flt_exitCode = -1
  /\ flt_config = LogStartFile
  /\ tradeFilter = resolveTradeFilter(LogStartFile)
  /\ flt_stream = [state |-> "open", status |-> FALSE,
                   method |-> streamMethod(LogStartFile.stream),
                   request |-> flt_createRequest(LogStartFile)]
  /\ statsInterval = TRUE
  /\ logFlushInterval = TRUE
  /\ \E n0 \in (MAX_LOG_BUFFER_SIZE - MaxLog - 1)..(MAX_LOG_BUFFER_SIZE - 1) :
       /\ logBuffer = [i \in 1..n0 |-> i]
       /\ logCalls = n0
  /\ printed = <<>>
  /\ flushTimers = 1
  /\ messageCount = 0
  /\ flt_tradeCount = 0
  /\ filteredOutCount = 0
  /\ flt_lastTrade = [buy |-> "none", sell |-> "none"]
  /\ ClockOff
  /\ CacheOff

NextLog ==
  \/ FltData
  \/ FltError
  \/ FltEnd
  \/ FltStatus
  \/ FltFlushTick
  \/ FltStatsTick
  \/ FltSignal

SpecLog == InitLog /\ [][NextLog]_vars

\* ----------------------------------------------------- toBase58 and its cache
\* Byte arrays are numbered: 0 is a missing or empty value, a negative number
\* a value bs58.encode rejects, a positive number an address.

\* Buffer.from(bytes).toString("hex")
hexKey(bytes) == [kind |-> "hex", of |-> bytes]

\* bs58.encode(bytes)
bs58encodeThrows(bytes) == bytes < 0

bs58encodeBytes(bytes) == [kind |-> "b58", of |-> bytes]

\* toBase58 of the supervisor, without a cache
sup_toBase58(bytes) ==
  IF bytes = 0 THEN [kind |-> "undefined", of |-> 0]
  ELSE IF bs58encodeThrows(bytes) THEN [kind |-> "invalid_address", of |-> 0]
  ELSE bs58encodeBytes(bytes)

CacheHas(cache, key) == \E i \in 1..Len(cache) : cache[i].key = key

CacheGet(cache, key) ==
  cache[CHOOSE i \in 1..Len(cache) : cache[i].key = key].value

\* toBase58 with a cache that never evicts
flt_toBase58_noEvict(cache, bytes) ==
  IF bytes = 0
  THEN [result |-> [kind |-> "undefined", of |-> 0], cache |-> cache]
  ELSE
    LET cacheKey == hexKey(bytes)
    IN  IF CacheHas(cache, cacheKey)
        THEN [result |-> CacheGet(cache, cacheKey), cache |-> cache]
        ELSE IF bs58encodeThrows(bytes)
        THEN [result |-> [kind |-> "invalid_address", of |-> 0],
              cache |-> cache]
        ELSE
          LET result == bs58encodeBytes(bytes)
          IN  [result |-> result,
               cache |-> Append(cache, [key |-> cacheKey, value |-> result])]

\* toBase58 of the filtering client: the result and the cache it leaves.
\* A Map iterates in insertion order, so keys().next() is the first entry.
flt_toBase58(cache, bytes) ==
  IF bytes = 0
  THEN [result |-> [kind |-> "undefined", of |-> 0], cache |-> cache]
  ELSE
    LET cacheKey == hexKey(bytes)
    IN  IF CacheHas(cache, cacheKey)
        THEN [result |-> CacheGet(cache, cacheKey), cache |-> cache]
        ELSE IF bs58encodeThrows(bytes)
        THEN [result |-> [kind |-> "invalid_address", of |-> 0],
              cache |-> cache]
        ELSE
          LET result == bs58encodeBytes(bytes)
              c1 == IF Len(cache) >= MAX_CACHE_SIZE THEN Tail(cache) ELSE cache
          IN  [result |-> result,
               cache |-> Append(c1, [key |-> cacheKey, value |-> result])]

\* arguments of toBase58: missing, rejected, two addresses cached early and
\* two addresses never seen before
CacheInputs == {0, -1, 1, 2, MAX_CACHE_SIZE + 1, MAX_CACHE_SIZE + 2}

\* the cache after n0 different addresses were converted
InitCache ==
  /\ pc = "cache"
  /\ exitCode = -1
  /\ config = NullConfig
  /\ client = "null"
  /\ currentStream = 0
  /\ isReloading = FALSE
  /\ tradeCount = 0
  /\ tradesInLastInterval = 0
  /\ performanceTimer = FALSE
  /\ reconnectAttempts = 0
  /\ reconnectTimer = "null"
  /\ orphanTimers = 0
  /\ isIntentionalDisconnect = FALSE
  /\ watchTimeout = FALSE
  /\ streams = <<>>
  /\ delays = <<>>
  /\ stopped = FALSE
  /\ lastOp = "load"
  /\ FltOff
  /\ ClockOff
  /\ \E n0 \in {MAX_CACHE_SIZE - 1, MAX_CACHE_SIZE} :
       base58Cache = [i \in 1..n0 |->
                        [key |-> hexKey(i), value |-> bs58encodeBytes(i)]]
  /\ cacheBytes = 0
  /\ cacheResult = [kind |-> "none", of |-> 0]
  /\ cacheCalls = 0

CacheCall ==
  /\ pc = "cache"
  /\ cacheCalls < MaxCacheCalls
  /\ \E bytes \in CacheInputs :
       LET r == flt_toBase58(base58Cache, bytes)
       IN  /\ base58Cache' = r.cache
           /\ cacheResult' = r.result
           /\ cacheBytes' = bytes
  /\ cacheCalls' = cacheCalls + 1
  /\ lastOp' = "toBase58"
  /\ UNCHANGED <<supVars, fltVars, clockVars>>

NextCache == CacheCall

SpecCache == InitCache /\ [][NextCache]_vars

\* ================================================================== claims

TerminationOps == {"error:current", "end:current"}
StartedOps == {"startup:ok", "timer:ok", "reload:ok"}

\* C1: whenever the current stream emits 'error' or 'end' and no shutdown
\* signal has been received, a reconnect is scheduled, for every stream the
\* supervisor opened, a stream opened by reloadAndRestart included.
C1_TerminationSchedulesReconnect ==
  [][lastOp' \in TerminationOps => reconnectTimer' = "armed"]_vars

\* C2: startStream returning normally leaves reconnectAttempts at 0, and the
\* first reconnect scheduled after it uses delay(0) = INITIAL_RECONNECT_DELAY.
C2_FirstDelayIsInitial ==
  /\ lastOp \in StartedOps => reconnectAttempts = 0
  /\ Len(delays) >= 1 => delays[1] = INITIAL_RECONNECT_DELAY

\* C3: six consecutive failures with no normal return of startStream in
\* between schedule the delays 1000, 2000, 4000, 8000, 16000, 30000.
C3_SixDelays ==
  Len(delays) >= 6 =>
    SubSeq(delays, 1, 6) = <<1000, 2000, 4000, 8000, 16000, 30000>>

\* C4: for every attempt count n >= 0 getReconnectDelay(n) is the smaller of
\* INITIAL_RECONNECT_DELAY * 2^n and MAX_RECONNECT_DELAY, it never exceeds
\* MAX_RECONNECT_DELAY, and it does not decrease when n grows.
C4_DelayLaw ==
  pc = "delay" =>
    \A i \in 1..Len(delays) :
      LET n == reconnectAttempts - Len(delays) + i - 1
          d == delays[i]
      IN  /\ d <= INITIAL_RECONNECT_DELAY * 2^n
          /\ d <= MAX_RECONNECT_DELAY
          /\ d = INITIAL_RECONNECT_DELAY * 2^n \/ d = MAX_RECONNECT_DELAY
          /\ i > 1 => delays[i - 1] <= d

\* the function was applied below and above the ceiling, from count 0 on
C4_Witness ==
  /\ pc = "delay"
  /\ Len(delays) = reconnectAttempts
  /\ Len(delays) >= 7
  /\ delays[1] = INITIAL_RECONNECT_DELAY
  /\ delays[Len(delays)] = MAX_RECONNECT_DELAY

\* C5: once stopStream(true) has run while a reconnect timeout was armed, no
\* reconnect timeout is armed, none fires (no timer-driven startStream) and
\* attemptReconnect schedules none.
C5_StopCancelsReconnect ==
  stopped =>
    /\ reconnectTimer # "armed"
    /\ orphanTimers = 0
    /\ lastOp \notin {"timer:ok", "timer:retry"}

\* a reload stopped a pending reconnect, and a later termination of the
\* stream it opened has been handled
C5_Witness ==
  /\ stopped
  /\ pc = "running"
  /\ lastOp \in TerminationOps

\* C6: at most one stream is open (neither cancelled nor terminated) in every
\* reachable state.
C6_AtMostOneOpenStream ==
  Cardinality(OpenStreams(streams)) <= 1

\* a second stream was opened after the first one was cancelled
C6_Witness ==
  /\ Len(streams) >= 2
  /\ streams[1].state = "cancelled"
  /\ Cardinality(OpenStreams(streams)) = 1

\* C7: a data event delivered by a stream that is not the current stream
\* (cancelled or replaced, or while a reconnect is pending) updates neither
\* tradeCount nor tradesInLastInterval.
C7_StaleDataIgnored ==
  [][lastOp' = "data:stale" =>
       /\ tradeCount' = tradeCount
       /\ tradesInLastInterval' = tradesInLastInterval]_vars

\* C9: a reload whose loadConfig returns null changes none of config, client,
\* the current stream, the reconnect timer, reconnectAttempts and
\* isIntentionalDisconnect, leaves isReloading false and is not retried.
C9_FailedLoadKeepsState ==
  [][lastOp' = "reload:loadFailed" =>
       /\ UNCHANGED <<config, client, currentStream, streams, reconnectTimer,
                      orphanTimers, reconnectAttempts, isIntentionalDisconnect,
                      performanceTimer>>
       /\ ~isReloading'
       /\ ~watchTimeout']_vars

\* a load failed while a stream was open, and the stream is still open
C9_Witness ==
  /\ lastOp = "reload:loadFailed"
  /\ currentStream # 0
  /\ streams[currentStream].state = "open"
  /\ ~isIntentionalDisconnect

\* C10: a synchronous failure of start after initial startup, in the reconnect
\* timer callback or during a reload (client initialisation included),
\* leaves a retry scheduled.
C10_SyncFailureRetried ==
  [][lastOp' \in {"timer:retry", "reload:clientFailed", "reload:startFailed"}
       => reconnectTimer' = "armed"]_vars

\* C12: stopStream(true) can be called in every state; after it there is no
\* current stream handle, no armed reconnect timeout and no performance
\* timer, and a second call changes nothing.
C12_StopIdempotent ==
  LET h == stopStream(Globals, TRUE)
  IN  /\ h.currentStream = 0
      /\ h.reconnectTimer = "null"
      /\ h.orphanTimers = 0
      /\ ~h.performanceTimer
      /\ h.isIntentionalDisconnect
      /\ stopStream(h, TRUE) = h
      /\ lastOp = "signal" => Globals = stopStream(Globals, TRUE)

\* stopStream(true) ran from the reconnect-pending state
C12_Witness ==
  /\ lastOp = "signal"
  /\ stopped
  /\ reconnectAttempts > 0

\* C13: after a successful reload the old stream is cancelled, no reconnect
\* timeout is armed, exactly one stream is open and its request is built from
\* the new configuration, reconnectAttempts is 0, and a later termination of
\* that stream is handled as after a plain start (a reconnect is scheduled).
C13_ReloadIsStopThenStart ==
  lastOp = "reload:ok" =>
    /\ currentStream = Len(streams)
    /\ OpenStreams(streams) = {currentStream}
    /\ streams[currentStream].request = createRequest(config)
    /\ reconnectTimer = "null" /\ orphanTimers = 0
    /\ reconnectAttempts = 0
    /\ onTerminated(Globals).reconnectTimer = "armed"

DataOps == {"data:current", "data:stale"}

\* C15: handling a data event leaves currentStream, reconnectTimer,
\* reconnectAttempts, isIntentionalDisconnect, isReloading and config (and the
\* streams, the performance timer and the client) unchanged.
C15_DataKeepsLifecycle ==
  [][lastOp' \in DataOps =>
       UNCHANGED <<currentStream, reconnectTimer, orphanTimers,
                   reconnectAttempts, isIntentionalDisconnect, isReloading,
                   config, client, streams, performanceTimer, pc>>]_vars

\* a trade was counted while a reconnect was pending
C15_Witness ==
  /\ lastOp = "data:stale"
  /\ tradeCount > 0
  /\ reconnectAttempts > 0
  /\ reconnectTimer = "armed"

\* C18: a timer-driven startStream after an unintentional termination keeps
\* tradeCount and tradesInLastInterval.
C18_ReconnectKeepsCounters ==
  [][lastOp' = "timer:ok" =>
       /\ tradeCount' = tradeCount
       /\ tradesInLastInterval' = tradesInLastInterval]_vars

\* C11: an initial startup that opens no stream (configuration loading,
\* client initialisation or the first start failed) ends the process with a
\* non-zero status, in both programs, and no reconnect timeout is armed then
\* or later.
C11_StartupFailureIsFatal ==
  [][/\ (pc = "startup" /\ pc' # "startup") =>
          IF OpenStreams(streams') = {}
          THEN pc' = "exited" /\ exitCode' >= 1
          ELSE pc' = "running" /\ exitCode' = -1
      /\ (flt_pc = "load" /\ flt_pc' # "load") =>
          IF flt_stream'.state = "none"
          THEN flt_pc' = "exited" /\ flt_exitCode' >= 1
          ELSE flt_pc' = "running" /\ flt_exitCode' = -1
      /\ (pc' = "exited" /\ exitCode' >= 1) =>
          /\ reconnectTimer' = "null" /\ orphanTimers' = 0
          /\ reconnectAttempts' = 0]_vars

\* the first start failed after the configuration was loaded and the client built
C11_Witness ==
  /\ lastOp = "startup:exit"
  /\ pc = "exited" /\ exitCode = 1
  /\ client # "null"

\* C14: after SIGINT or SIGTERM, in either program, the open stream has been
\* cancelled, no timer is pending and the process has exited with status 0.
C14_SignalStopsAndExits ==
  /\ lastOp = "signal" =>
       /\ pc = "exited" /\ exitCode = 0
       /\ OpenStreams(streams) = {}
       /\ currentStream = 0
       /\ reconnectTimer # "armed" /\ orphanTimers = 0
       /\ ~performanceTimer
       /\ ~watchTimeout
  /\ lastOp = "fsignal" =>
       /\ flt_pc = "exited" /\ flt_exitCode = 0
       /\ flt_stream.state # "open"
       /\ ~statsInterval /\ ~logFlushInterval

FilterKinds ==
  [programs |-> "program", pool |-> "pool", tokens |-> "token",
   traders |-> "trader", signers |-> "signer"]

\* the request the claim describes: each kind with a non-empty list, verbatim
ExpectedRequest(filters) ==
  LET f == FilterLists(filters)
      kinds == {k \in DOMAIN FilterKinds :
                  f[k].present /\ f[k].addresses # <<>>}
  IN  [n \in {FilterKinds[k] : k \in kinds} |->
         [addresses |-> f[CHOOSE k \in kinds : FilterKinds[k] = n].addresses]]

\* C16: the request of every stream holds, for each of programs, pool,
\* tokens, traders and signers, the configured list when it is non-empty and
\* no entry otherwise, in both programs.
C16_RequestCarriesAllFilters ==
  /\ lastOp \in StartedOps =>
       streams[currentStream].request = ExpectedRequest(config.filters)
  /\ flt_stream.state # "none" =>
       flt_stream.request = ExpectedRequest(flt_config.filters)

\* C17: a trade_filter that is present and is not alltrades, buys or sells
\* ends the process with status 1 before a stream is opened; an absent
\* trade_filter becomes alltrades and startup goes on.
C17_InvalidTradeFilterIsFatal ==
  (flt_pc \in {"running", "exited"} /\ flt_config # NullFltConfig) =>
    /\ (flt_config.trade_filter \notin {"absent", "alltrades", "buys", "sells"})
         => /\ flt_pc = "exited" /\ flt_exitCode = 1
            /\ flt_stream.state = "none"
    /\ flt_config.trade_filter = "absent"
         => tradeFilter = "alltrades" /\ lastOp # "fstart:exit:trade_filter"

TokenSet(filters) ==
  LET t == FilterLists(filters).tokens
  IN  IF t.present THEN {t.addresses[i] : i \in 1..Len(t.addresses)} ELSE {}

\* C19: without a token filter every trade is shown; otherwise buys shows
\* exactly the trades whose buy-side mint is a filtered token, sells those
\* whose sell-side mint is one, alltrades those with either.
C19_ShouldShowTrade ==
  lastOp \in {"fdata:shown", "fdata:filtered"} =>
    LET T == TokenSet(flt_config.filters)
        onBuy == toBase58(flt_lastTrade.buy) \in T
        onSell == toBase58(flt_lastTrade.sell) \in T
        expected == IF T = {} THEN TRUE
                    ELSE IF tradeFilter = "buys" THEN onBuy
                    ELSE IF tradeFilter = "sells" THEN onSell
                    ELSE onBuy \/ onSell
    IN  (lastOp = "fdata:shown") <=> expected

\* with the buys filter a trade that sells a filtered token was filtered out
C19_Witness ==
  /\ lastOp = "fdata:filtered"
  /\ tradeFilter = "buys"
  /\ toBase58(flt_lastTrade.sell) \in TokenSet(flt_config.filters)
  /\ filteredOutCount > 0

ReloadOps == {"reload:dropped", "reload:loadFailed", "reload:clientFailed",
              "reload:startFailed", "reload:ok", "reload:uncaught"}

\* C20: a burst of "change" events, each less than 300 ms after the previous
\* one, causes exactly one reloadAndRestart call, made 300 ms after the last
\* event of the burst, and at most one debounce timeout is armed at any time:
\* while the timeout is armed it expires 300 ms after the last event and no
\* call has been made for the burst; a call is made at exactly that instant;
\* once no timeout is armed the burst has had exactly one call.
C20_DebounceOneReload ==
  /\ Cardinality(PendingTimers(Watch)) <= 1
  /\ watchOrphans = {}
  /\ burstCalls <= 1
  /\ watchDeadline # -1 =>
       /\ watchDeadline = lastChange + WATCH_DEBOUNCE_MS
       /\ now <= watchDeadline
       /\ burstCalls = 0
  /\ lastOp \in ReloadOps =>
       /\ now = lastChange + WATCH_DEBOUNCE_MS
       /\ burstCalls = 1
  /\ (lastChange # -1 /\ watchDeadline = -1) => burstCalls = 1

C20_Witness ==
  /\ lastOp \in ReloadOps
  /\ burstEvents >= 3
  /\ burstCalls = 1
  /\ now = lastChange + WATCH_DEBOUNCE_MS
  /\ watchDeadline = -1

StaleTerminationOps == {"error:stale", "end:stale"}

\* C21: an error or end event of a stream that is not the current stream
\* leaves the supervisor alone: the current stream and the open streams are
\* the same, no reconnect timeout is armed, cleared or replaced, and
\* reconnectAttempts is not incremented.
C21_StaleTerminationIgnored ==
  [][lastOp' \in StaleTerminationOps =>
       /\ currentStream' = currentStream
       /\ OpenStreams(streams') = OpenStreams(streams)
       /\ reconnectTimer' = reconnectTimer
       /\ orphanTimers' = orphanTimers
       /\ Len(delays') = Len(delays)
       /\ reconnectAttempts' = reconnectAttempts]_vars

\* C22: isReloading is true only while reloadAndRestart executes: whenever a
\* handler has returned or been left by an exception, isReloading is false.
C22_ReloadFlagCleared ==
  ~isReloading

\* the reconnect timeouts still armed
PendingReconnects ==
  (IF reconnectTimer = "armed" THEN 1 ELSE 0) + orphanTimers

\* C23: at most one reconnect timeout is pending, and one is pending only
\* while currentStream is null and no stream is open.
C23_OneReconnectNoStream ==
  /\ PendingReconnects <= 1
  /\ PendingReconnects > 0 => (currentStream = 0 /\ OpenStreams(streams) = {})

C23_Witness ==
  /\ PendingReconnects = 1
  /\ currentStream = 0
  /\ Len(delays) >= 2
  /\ lastOp = "timer:retry"

\* C24: every message passed to bufferedLog is printed exactly once and in the
\* order of the calls: what has been printed followed by what is buffered is
\* the sequence of all messages so far, and after shutdown nothing is left in
\* the buffer; between handlers the buffer holds fewer than
\* MAX_LOG_BUFFER_SIZE messages; at most one flush interval is ever created.
C24_LogOnceInOrder ==
  /\ printed \o logBuffer = [i \in 1..logCalls |-> i]
  /\ flt_pc = "exited" /\ flt_exitCode = 0 => logBuffer = <<>>
  /\ Len(logBuffer) < MAX_LOG_BUFFER_SIZE
  /\ flushTimers <= 1
  /\ logCalls > 0 => flushTimers = 1

C24_Witness ==
  /\ logCalls > MAX_LOG_BUFFER_SIZE
  /\ Len(printed) = MAX_LOG_BUFFER_SIZE
  /\ Len(logBuffer) > 0
  /\ lastOp \in {"fdata:shown", "fdata:other", "fstatus", "fstats"}

\* C25: in the filtering client every message increments messageCount once;
\* a message with a Trade increments exactly one of tradeCount (shown) and
\* filteredOutCount (filtered, and then nothing else is processed or logged);
\* printStats resets all counters together; so in every state
\* tradeCount + filteredOutCount <= messageCount and no counter is negative.
C25_CounterSteps ==
  [][/\ lastOp' \in {"fdata:other", "fdata:filtered", "fdata:shown"} =>
          messageCount' = messageCount + 1
     /\ lastOp' = "fdata:other" =>
          /\ flt_tradeCount' = flt_tradeCount
          /\ filteredOutCount' = filteredOutCount
     /\ lastOp' = "fdata:shown" =>
          /\ flt_tradeCount' = flt_tradeCount + 1
          /\ filteredOutCount' = filteredOutCount
     /\ lastOp' = "fdata:filtered" =>
          /\ flt_tradeCount' = flt_tradeCount
          /\ filteredOutCount' = filteredOutCount + 1
          /\ logCalls' = logCalls
     /\ lastOp' = "fstats" =>
          /\ messageCount' = 0
          /\ flt_tradeCount' = 0
          /\ filteredOutCount' = 0
     /\ flt_tradeCount' + filteredOutCount' <= messageCount'
     /\ messageCount' >= 0 /\ flt_tradeCount' >= 0 /\ filteredOutCount' >= 0]_vars

C25_Witness ==
  /\ lastOp = "fdata:shown"
  /\ flt_tradeCount = 1
  /\ filteredOutCount = 1
  /\ messageCount = 2
  /\ Len(printed) > 0

CacheKeys(cache) == {cache[i].key : i \in 1..Len(cache)}

C26_CacheState ==
  /\ Len(base58Cache) <= MAX_CACHE_SIZE
  /\ Cardinality(CacheKeys(base58Cache)) = Len(base58Cache)
  /\ \A i \in 1..Len(base58Cache) :
       /\ base58Cache[i].key.of > 0
       /\ base58Cache[i].value = sup_toBase58(base58Cache[i].key.of)
  /\ cacheCalls > 0 => cacheResult = sup_toBase58(cacheBytes)

\* C26: the base58 cache never holds more than MAX_CACHE_SIZE entries; a new
\* key inserted into a full cache evicts the oldest-inserted key and nothing
\* else; toBase58 with the cache returns what toBase58 without the cache
\* returns for the same argument ("undefined" for a missing value,
\* "invalid_address" for a rejected one, which is not cached).
C26_CacheBoundedAndTransparent ==
  [][/\ C26_CacheState'
     /\ base58Cache' # base58Cache =>
          /\ ~CacheHas(base58Cache, hexKey(cacheBytes'))
          /\ base58Cache' =
               Append(IF Len(base58Cache) = MAX_CACHE_SIZE
                      THEN Tail(base58Cache) ELSE base58Cache,
                      [key |-> hexKey(cacheBytes'),
                       value |-> sup_toBase58(cacheBytes')])
     /\ cacheBytes' <= 0 => base58Cache' = base58Cache]_vars

C26_Witness ==
  /\ Len(base58Cache) = MAX_CACHE_SIZE
  /\ base58Cache[1].key = hexKey(3)
  /\ base58Cache[MAX_CACHE_SIZE].key = hexKey(1)
  /\ cacheBytes = 1
  /\ cacheResult = bs58encodeBytes(1)

====
